---- MODULE Spec2Model ----
(***************************************************************************)
(* Text <-> grayscale image codec (TextToImage.py, ImageToText.py).        *)
(*                                                                         *)
(* A character is a record [cp |-> code point]; a str is a sequence of     *)
(* characters; a path is a sequence of one-character strings.  A Python    *)
(* call that may raise is modelled by a record [exc, value]: exc is "None" *)
(* when the call returns value, else the name of the exception raised.     *)
(***************************************************************************)
EXTENDS Integers, Sequences, FiniteSets, TLC

(* ------------------------------ bounds ------------------------------- *)

\* longest text handed to encode / stored in a text file
MaxLen == 2
\* the texts are drawn from the code points 0..MaxCodePoint and DefaultLimit
MaxCodePoint == 3
\* the limits are drawn from 0..MaxSmallLimit, DefaultLimit and DefaultLimit + 1
MaxSmallLimit == 2
\* largest text_length handed to get_image_size on its own
MaxTextLength == 60
\* most cells (width * height) of a raster found on disk by the decoder
MaxCells == 4
\* largest intensity of such a raster
MaxPixel == 2

(* ------------------------- program constants ------------------------- *)

\* limit=256, the default of convert_char_to_int, encode and encode_file
DefaultLimit == 256
\* Image.new("L", size): one 8-bit channel, putpixel stores 0..255
ChannelMax == 255

(* --------------------------- Python values --------------------------- *)

Ok(v) == [exc |-> "None", value |-> v]

Raise(e) == [exc |-> e, value |-> <<>>]

chr(v) == [cp |-> v]

ord(c) == c.cp

Str(s) == [pytype |-> "str", chars |-> s]

\* a value that is not a str (an int, bytes, None)
NotStr == [pytype |-> "int", chars |-> <<>>]

\* str.lower() on the characters that occur in the paths of the model
lower(s) ==
    [i \in 1..Len(s) |->
        CASE s[i] = "P" -> "p"
          [] s[i] = "N" -> "n"
          [] s[i] = "G" -> "g"
          [] s[i] = "T" -> "t"
          [] s[i] = "X" -> "x"
          [] s[i] = "O" -> "o"
          [] OTHER -> s[i]]

\* s[-n:] for n >= 1
Suffix(s, n) == IF Len(s) <= n THEN s ELSE SubSeq(s, Len(s) - n + 1, Len(s))

(* --------------------------- check_filename -------------------------- *)

RECURSIVE StripSlashes(_)
\* while filepath[-1] == "/" or filepath[-1] == "\\": filepath = filepath[0:-1]
StripSlashes(filepath) ==
    IF Len(filepath) = 0 THEN Raise("IndexError")
    ELSE IF filepath[Len(filepath)] \in {"/", "\\"}
         THEN StripSlashes(SubSeq(filepath, 1, Len(filepath) - 1))
         ELSE Ok(filepath)

check_filename(filepath, extension) ==
    IF Len(extension) = 0 THEN Raise("IndexError")
    ELSE IF extension[1] # "." THEN Raise("ValueError")
    ELSE LET file_extension == lower(Suffix(filepath, Len(extension)))
             ext == lower(extension)
         IN  IF file_extension # ext
             THEN LET s == StripSlashes(filepath)
                  IN  IF s.exc # "None" THEN s ELSE Ok(s.value \o ext)
             ELSE Ok(filepath)

(* ------------------------ convert_char_to_int ------------------------ *)

\* faulty variant: a value of 0 is not replaced by 1
ConvertNoZeroGuard(char, limit) ==
    IF limit = 0 THEN Raise("ZeroDivisionError") ELSE Ok(ord(char) % limit)

convert_char_to_int(char, limit) ==
    IF limit = 0 THEN Raise("ZeroDivisionError")
    ELSE LET value == ord(char) % limit
         IN  Ok(IF value = 0 THEN 1 ELSE value)

(* --------------------- _factors, get_image_size ---------------------- *)

\* int(number ** 0.5)
isqrt(number) == CHOOSE r \in 0..number : r * r <= number /\ (r + 1) * (r + 1) > number

RECURSIVE sorted(_)
sorted(S) ==
    IF S = {} THEN <<>>
    ELSE LET m == CHOOSE x \in S : \A y \in S : x <= y
         IN  <<m>> \o sorted(S \ {m})

\* sorted(set(reduce(list.__add__, ([i, number // i] for i in range(1, int(number ** 0.5) + 1)
\*                                   if number % i == 0))))
_factors(number) ==
    IF number < 0 THEN Raise("ValueError")
    ELSE LET I == {i \in 1..isqrt(number) : number % i = 0}
         IN  IF I = {} THEN Raise("TypeError")   \* reduce() of an empty sequence
             ELSE Ok(sorted(UNION {{i, number \div i} : i \in I}))

\* faulty variant: no room is reserved for the null terminator
TrueLengthNoTerminator(text_length) == text_length

\* true_length of get_image_size
TrueLength(text_length) ==
    IF text_length % 2 = 0 THEN text_length + 2 ELSE text_length + 1

RECURSIVE PopLoop(_)
\* while len(f) != 2: f.pop(0); f.pop()
PopLoop(f) ==
    IF Len(f) = 2 THEN Ok(f)
    ELSE IF Len(f) = 0 THEN Raise("IndexError")
    ELSE IF Len(f) = 1 THEN Raise("IndexError")
    ELSE PopLoop(SubSeq(f, 2, Len(f) - 1))

\* faulty variant: the first and last divisors are taken instead of the middle two
SizeFromEnds(text_length) ==
    LET fr == _factors(TrueLength(text_length))
    IN  IF fr.exc # "None" THEN fr
        ELSE Ok(<<fr.value[Len(fr.value)], fr.value[1]>>)

get_image_size(text_length) ==
    LET true_length == TrueLength(text_length)
        fr == _factors(true_length)
    IN  IF fr.exc # "None" THEN fr
        ELSE LET f == fr.value
             IN  IF Len(f) % 2 # 0
                 THEN Ok(<<f[(Len(f) \div 2) + 1], f[(Len(f) \div 2) + 1]>>)
                 ELSE LET p == PopLoop(f)
                      IN  IF p.exc # "None" THEN p
                          ELSE Ok(<<p.value[2], p.value[1]>>)

(* --------------------------- input domains --------------------------- *)

CodePoints == (0..MaxCodePoint) \cup {DefaultLimit}

Chars == {chr(v) : v \in CodePoints}

Limits == (0..MaxSmallLimit) \cup {DefaultLimit, DefaultLimit + 1}

SeqsUpTo(S, n) == UNION {[1..k -> S] : k \in 0..n}

Texts == {Str(s) : s \in SeqsUpTo(Chars, MaxLen)}

(* ------------------------- PIL images, files ------------------------- *)

\* Image.new("L", size): every pixel 0
Image_new(size) ==
    [size |-> size, px |-> [xy \in (0..(size[1] - 1)) \X (0..(size[2] - 1)) |-> 0]]

\* the value an "L" image keeps of an int handed to putpixel: PIL clips it
\* to the 8 bits of the channel
CLIP8(v) == IF v < 0 THEN 0 ELSE IF v > ChannelMax THEN ChannelMax ELSE v

\* faulty variant: the pixel is addressed as (col, row)
PutPixelTransposed(img, xy, value) ==
    IF <<xy[2], xy[1]>> \notin DOMAIN img.px THEN Raise("IndexError")
    ELSE Ok([img EXCEPT !.px[<<xy[2], xy[1]>>] = CLIP8(value)])

putpixel(img, xy, value) ==
    IF xy \notin DOMAIN img.px THEN Raise("IndexError")
    ELSE Ok([img EXCEPT !.px[xy] = CLIP8(value)])

getpixel(img, xy) == img.px[xy]

NoImage == [size |-> <<0, 0>>, px |-> <<>>]

PngFile(img) == [kind |-> "png", img |-> img, chars |-> <<>>]

TextFile(s) == [kind |-> "text", img |-> NoImage, chars |-> s]

\* path.isfile(p)
isfile(files, p) == p \in DOMAIN files

\* Image.open(p) of an existing file
Image_open(files, p) ==
    IF files[p].kind = "png" THEN Ok(files[p].img) ELSE Raise("UnidentifiedImageError")

\* the file system after p is written with content f
WriteFile(files, p, f) ==
    [q \in (DOMAIN files) \cup {p} |-> IF q = p THEN f ELSE files[q]]

IoEvent(c, p) == [call |-> c, path |-> p]

(* ---------------------- the pixel loop of encode --------------------- *)

RECURSIVE EncodeCols(_, _, _, _, _, _)
\* for col in range(0, size[1]): if ind < text_length: ... else: break
EncodeCols(st, text, text_length, limit, row, col) ==
    IF col >= st.img.size[2] THEN st
    ELSE IF st.ind < text_length
    THEN LET pixel_value == convert_char_to_int(text[st.ind + 1], limit)
         IN  IF pixel_value.exc # "None" THEN [st EXCEPT !.exc = pixel_value.exc]
             ELSE LET r == putpixel(st.img, <<row, col>>, pixel_value.value)
                  IN  IF r.exc # "None" THEN [st EXCEPT !.exc = r.exc]
                      ELSE EncodeCols([st EXCEPT !.img = r.value,
                                                 !.ind = st.ind + 1,
                                                 !.written = Append(st.written, <<row, col>>)],
                                      text, text_length, limit, row, col + 1)
    ELSE st

RECURSIVE EncodeRows(_, _, _, _, _)
\* for row in range(0, size[0]): <inner loop>
EncodeRows(st, text, text_length, limit, row) ==
    IF row >= st.img.size[1] THEN st
    ELSE LET s2 == EncodeCols([st EXCEPT !.rows = st.rows + 1],
                              text, text_length, limit, row, 0)
         IN  IF s2.exc # "None" THEN s2
             ELSE EncodeRows(s2, text, text_length, limit, row + 1)

\* lines 100-108 of encode on a fresh image
EncodeLoop(img, text, text_length, limit) ==
    EncodeRows([exc |-> "None", img |-> img, ind |-> 0, written |-> <<>>, rows |-> 0],
               text, text_length, limit, 0)

(* ---------------------- the pixel loop of decode --------------------- *)

RECURSIVE DecodeColsKeepZero(_, _, _, _)
\* faulty variant: a 0 pixel is decoded to chr(0) instead of being skipped
DecodeColsKeepZero(img, decoded_text, row, col) ==
    IF col >= img.size[2] THEN decoded_text
    ELSE DecodeColsKeepZero(img, Append(decoded_text, chr(getpixel(img, <<row, col>>))),
                            row, col + 1)

RECURSIVE DecodeCols(_, _, _, _)
\* for col in range(0, img.size[1]): if pixel_value != 0: decoded_text += chr(pixel_value)
DecodeCols(img, decoded_text, row, col) ==
    IF col >= img.size[2] THEN decoded_text
    ELSE LET pixel_value == getpixel(img, <<row, col>>)
         IN  DecodeCols(img,
                        IF pixel_value # 0 THEN Append(decoded_text, chr(pixel_value))
                        ELSE decoded_text,
                        row, col + 1)

RECURSIVE DecodeRows(_, _, _)
\* for row in range(0, img.size[0]): <inner loop>
DecodeRows(img, decoded_text, row) ==
    IF row >= img.size[1] THEN decoded_text
    ELSE DecodeRows(img, DecodeCols(img, decoded_text, row, 0), row + 1)

\* faulty variant: the image is walked with the y loop outside and the x loop inside
DecodeLoopRowMajor(img) ==
    LET w == img.size[1]
        n == img.size[1] * img.size[2]
        cells == [i \in 1..n |-> img.px[<<(i - 1) % w, (i - 1) \div w>>]]
        kept == SelectSeq(cells, LAMBDA v : v # 0)
    IN  [k \in 1..Len(kept) |-> chr(kept[k])]

\* lines 27-32 of decode
DecodeLoop(img) == DecodeRows(img, <<>>, 0)

(* ------------------------------- paths ------------------------------- *)

empty_path == <<>>

o_dir == <<"o", "/">>

o_png == <<"o", ".", "p", "n", "g">>

I_PNG == <<"I", ".", "P", "N", "G">>

j_png == <<"j", ".", "p", "n", "g">>

t_txt == <<"t", ".", "t", "x", "t">>

m_txt == <<"m", ".", "t", "x", "t">>

m_png == <<"m", ".", "p", "n", "g">>

r_name == <<"r">>

dot_png == <<".", "p", "n", "g">>

dot_txt == <<".", "t", "x", "t">>

\* image_path arguments of encode and encode_file
EncodeImagePaths == {empty_path, o_dir, o_png}

\* file_path arguments of encode_file
EncodeFilePaths == {t_txt, m_png, I_PNG}

\* image_path arguments of decode and decode_to_file
DecodeImagePaths == {o_png, I_PNG, j_png, m_txt, t_txt}

\* file_path arguments of decode_to_file
DecodeFilePaths == {r_name, empty_path}

(* ------------------------------- state ------------------------------- *)

VARIABLES
    fs,     \* the file system: path -> file, for the files that exist
    enc,    \* the run of TextToImage (encode or encode_file): arguments, locals, position
    dec,    \* the run of ImageToText (decode or decode_to_file): arguments, locals, position
    call    \* one call of a pure helper: its arguments and its result

vars == <<fs, enc, dec, call>>

EncIdle ==
    [pc |-> "idle", op |-> "none", text |-> Str(<<>>), image_path |-> empty_path,
     limit |-> DefaultLimit, file_path |-> empty_path, text_length |-> 0,
     size |-> <<0, 0>>, result_path |-> empty_path, img |-> NoImage, ind |-> 0,
     written |-> <<>>, rows |-> 0, exc |-> "None", at |-> "none", io |-> <<>>,
     fs0 |-> <<>>]

DecIdle ==
    [pc |-> "idle", op |-> "none", image_path |-> empty_path, file_path |-> empty_path,
     out_path |-> empty_path, img |-> NoImage, decoded_text |-> <<>>,
     exc |-> "None", at |-> "none", io |-> <<>>, fs0 |-> <<>>]

CallIdle ==
    [fn |-> "none", text_length |-> 0, char |-> chr(0), limit |-> DefaultLimit,
     ret |-> Raise("Pending")]

EncRaise(e) == [enc EXCEPT !.pc = "raised", !.exc = e, !.at = enc.pc]

DecRaise(e) == [dec EXCEPT !.pc = "raised", !.exc = e, !.at = dec.pc]

(* --------------- the helpers called on their own (SpecPure) ---------- *)

InitPure ==
    /\ fs = <<>>
    /\ enc = EncIdle
    /\ dec = DecIdle
    /\ \E n \in 0..MaxTextLength, c \in Chars, l \in Limits :
          call = [CallIdle EXCEPT !.text_length = n, !.char = c, !.limit = l]

CallGetImageSize ==
    /\ call.fn = "none"
    /\ call' = [call EXCEPT !.fn = "get_image_size",
                            !.ret = get_image_size(call.text_length)]
    /\ UNCHANGED <<fs, enc, dec>>

CallConvertCharToInt ==
    /\ call.fn = "none"
    /\ call' = [call EXCEPT !.fn = "convert_char_to_int",
                            !.ret = convert_char_to_int(call.char, call.limit)]
    /\ UNCHANGED <<fs, enc, dec>>

NextPure == CallGetImageSize \/ CallConvertCharToInt

SpecPure == InitPure /\ [][NextPure]_vars

(* ------------------------- TextToImage: encode ----------------------- *)

\* encode(text, image_path, limit) is called
CallEncode ==
    /\ enc.pc = "idle" /\ dec.pc = "idle"
    /\ \E t \in Texts \cup {NotStr}, p \in EncodeImagePaths, l \in Limits :
          enc' = [enc EXCEPT !.pc = "e_type", !.op = "encode", !.text = t,
                             !.image_path = p, !.limit = l, !.fs0 = fs]
    /\ UNCHANGED <<fs, dec, call>>

\* encode_file(file_path, image_path, limit) is called
CallEncodeFile ==
    /\ enc.pc = "idle" /\ dec.pc = "idle"
    /\ \E f \in EncodeFilePaths, p \in EncodeImagePaths, l \in Limits :
          enc' = [enc EXCEPT !.pc = "ef_isfile", !.op = "encode_file", !.file_path = f,
                             !.image_path = p, !.limit = l, !.fs0 = fs]
    /\ UNCHANGED <<fs, dec, call>>

\* if not path.isfile(file_path): raise FileExistsError
EncodeFile_IsFile ==
    /\ enc.pc = "ef_isfile"
    /\ LET e == [enc EXCEPT !.io = Append(enc.io, IoEvent("isfile", enc.file_path))]
       IN  enc' = IF ~isfile(fs, enc.file_path)
                  THEN [e EXCEPT !.pc = "raised", !.exc = "FileExistsError", !.at = enc.pc]
                  ELSE [e EXCEPT !.pc = "ef_ext"]
    /\ UNCHANGED <<fs, dec, call>>

\* if file_path[-4:].lower() != ".txt": raise TypeError
EncodeFile_Extension ==
    /\ enc.pc = "ef_ext"
    /\ enc' = IF lower(Suffix(enc.file_path, 4)) # dot_txt
              THEN EncRaise("TypeError")
              ELSE [enc EXCEPT !.pc = "ef_read"]
    /\ UNCHANGED <<fs, dec, call>>

\* with open(file_path, "r") as f: text = f.read(); then encode(text, image_path, limit)
EncodeFile_Read ==
    /\ enc.pc = "ef_read"
    /\ enc' = [enc EXCEPT !.pc = "e_type",
                          !.text = Str(fs[enc.file_path].chars),
                          !.io = Append(enc.io, IoEvent("open_r", enc.file_path))]
    /\ UNCHANGED <<fs, dec, call>>

\* faulty variant: the type of text is not checked
Encode_TypeCheckSkipped ==
    /\ enc.pc = "e_type"
    /\ enc' = [enc EXCEPT !.pc = "e_size"]
    /\ UNCHANGED <<fs, dec, call>>

\* if type(text) is not str: raise TypeError
Encode_TypeCheck ==
    /\ enc.pc = "e_type"
    /\ enc' = IF enc.text.pytype # "str"
              THEN EncRaise("TypeError")
              ELSE [enc EXCEPT !.pc = "e_size"]
    /\ UNCHANGED <<fs, dec, call>>

\* text_length = len(text); size = get_image_size(text_length)
Encode_Size ==
    /\ enc.pc = "e_size"
    /\ LET n == Len(enc.text.chars)
           r == get_image_size(n)
       IN  enc' = IF r.exc # "None"
                  THEN [EncRaise(r.exc) EXCEPT !.text_length = n]
                  ELSE [enc EXCEPT !.pc = "e_name", !.text_length = n, !.size = r.value]
    /\ UNCHANGED <<fs, dec, call>>

\* result_path = check_filename(image_path, extension=".png")
Encode_CheckFilename ==
    /\ enc.pc = "e_name"
    /\ LET r == check_filename(enc.image_path, dot_png)
       IN  enc' = IF r.exc # "None"
                  THEN EncRaise(r.exc)
                  ELSE [enc EXCEPT !.pc = "e_new", !.result_path = r.value]
    /\ UNCHANGED <<fs, dec, call>>

\* img = Image.new("L", size); ind = 0
Encode_NewImage ==
    /\ enc.pc = "e_new"
    /\ enc' = [enc EXCEPT !.pc = "e_loop", !.img = Image_new(enc.size), !.ind = 0]
    /\ UNCHANGED <<fs, dec, call>>

\* the two nested loops over the pixels
Encode_Loop ==
    /\ enc.pc = "e_loop"
    /\ LET st == EncodeLoop(enc.img, enc.text.chars, enc.text_length, enc.limit)
           e  == [enc EXCEPT !.img = st.img, !.ind = st.ind, !.written = st.written,
                             !.rows = st.rows]
       IN  enc' = IF st.exc # "None"
                  THEN [e EXCEPT !.pc = "raised", !.exc = st.exc, !.at = enc.pc]
                  ELSE [e EXCEPT !.pc = "e_save"]
    /\ UNCHANGED <<fs, dec, call>>

\* img.save(result_path); return result_path
Encode_Save ==
    /\ enc.pc = "e_save"
    /\ fs' = WriteFile(fs, enc.result_path, PngFile(enc.img))
    /\ enc' = [enc EXCEPT !.pc = "returned",
                          !.io = Append(enc.io, IoEvent("save", enc.result_path))]
    /\ UNCHANGED <<dec, call>>

NextEncoder ==
    \/ CallEncode
    \/ CallEncodeFile
    \/ EncodeFile_IsFile
    \/ EncodeFile_Extension
    \/ EncodeFile_Read
    \/ Encode_TypeCheck
    \/ Encode_Size
    \/ Encode_CheckFilename
    \/ Encode_NewImage
    \/ Encode_Loop
    \/ Encode_Save

(* ------------------------- ImageToText: decode ----------------------- *)

EncoderAtRest == enc.pc \in {"idle", "returned", "raised"}

\* decode(image_path) is called
CallDecode ==
    /\ dec.pc = "idle" /\ EncoderAtRest
    /\ \E p \in DecodeImagePaths :
          dec' = [dec EXCEPT !.pc = "d_isfile", !.op = "decode", !.image_path = p,
                             !.fs0 = fs]
    /\ UNCHANGED <<fs, enc, call>>

\* decode_to_file(image_path, file_path) is called
CallDecodeToFile ==
    /\ dec.pc = "idle" /\ EncoderAtRest
    /\ \E p \in DecodeImagePaths, f \in DecodeFilePaths :
          dec' = [dec EXCEPT !.pc = "df_isfile", !.op = "decode_to_file",
                             !.image_path = p, !.file_path = f, !.fs0 = fs]
    /\ UNCHANGED <<fs, enc, call>>

\* faulty variant: decode_to_file does not check that image_path exists
DecodeToFile_IsFileUnchecked ==
    /\ dec.pc = "df_isfile"
    /\ dec' = [dec EXCEPT !.pc = "df_ext"]
    /\ UNCHANGED <<fs, enc, call>>

\* decode_to_file: if not path.isfile(image_path): raise FileExistsError
DecodeToFile_IsFile ==
    /\ dec.pc = "df_isfile"
    /\ LET d == [dec EXCEPT !.io = Append(dec.io, IoEvent("isfile", dec.image_path))]
       IN  dec' = IF ~isfile(fs, dec.image_path)
                  THEN [d EXCEPT !.pc = "raised", !.exc = "FileExistsError", !.at = dec.pc]
                  ELSE [d EXCEPT !.pc = "df_ext"]
    /\ UNCHANGED <<fs, enc, call>>

\* decode_to_file: if image_path[-4:].lower() != ".png": raise TypeError
DecodeToFile_Extension ==
    /\ dec.pc = "df_ext"
    /\ dec' = IF lower(Suffix(dec.image_path, 4)) # dot_png
              THEN DecRaise("TypeError")
              ELSE [dec EXCEPT !.pc = "df_name"]
    /\ UNCHANGED <<fs, enc, call>>

\* decode_to_file: file_path = check_filename(file_path); then decode(image_path)
DecodeToFile_CheckFilename ==
    /\ dec.pc = "df_name"
    /\ LET r == check_filename(dec.file_path, dot_txt)
       IN  dec' = IF r.exc # "None"
                  THEN DecRaise(r.exc)
                  ELSE [dec EXCEPT !.pc = "d_isfile", !.out_path = r.value]
    /\ UNCHANGED <<fs, enc, call>>

\* decode: if not path.isfile(image_path): raise FileExistsError
Decode_IsFile ==
    /\ dec.pc = "d_isfile"
    /\ LET d == [dec EXCEPT !.io = Append(dec.io, IoEvent("isfile", dec.image_path))]
       IN  dec' = IF ~isfile(fs, dec.image_path)
                  THEN [d EXCEPT !.pc = "raised", !.exc = "FileExistsError", !.at = dec.pc]
                  ELSE [d EXCEPT !.pc = "d_open"]
    /\ UNCHANGED <<fs, enc, call>>

\* decode: img = Image.open(image_path)
Decode_Open ==
    /\ dec.pc = "d_open"
    /\ LET r == Image_open(fs, dec.image_path)
           d == [dec EXCEPT !.io = Append(dec.io, IoEvent("Image.open", dec.image_path))]
       IN  dec' = IF r.exc # "None"
                  THEN [d EXCEPT !.pc = "raised", !.exc = r.exc, !.at = dec.pc]
                  ELSE [d EXCEPT !.pc = "d_loop", !.img = r.value]
    /\ UNCHANGED <<fs, enc, call>>

\* decode: the two nested loops over the pixels; return decoded_text
Decode_Loop ==
    /\ dec.pc = "d_loop"
    /\ dec' = [dec EXCEPT !.decoded_text = DecodeLoop(dec.img),
                          !.pc = IF dec.op = "decode_to_file" THEN "df_write" ELSE "returned"]
    /\ UNCHANGED <<fs, enc, call>>

\* decode_to_file: with open(file_path, "w") as f: f.write(decoded_text); return file_path
DecodeToFile_Write ==
    /\ dec.pc = "df_write"
    /\ fs' = WriteFile(fs, dec.out_path, TextFile(dec.decoded_text))
    /\ dec' = [dec EXCEPT !.pc = "returned",
                          !.io = Append(dec.io, IoEvent("open_w", dec.out_path))]
    /\ UNCHANGED <<enc, call>>

NextDecoder ==
    \/ CallDecode
    \/ CallDecodeToFile
    \/ DecodeToFile_IsFile
    \/ DecodeToFile_Extension
    \/ DecodeToFile_CheckFilename
    \/ Decode_IsFile
    \/ Decode_Open
    \/ Decode_Loop
    \/ DecodeToFile_Write

(* ---------- the codec: TextToImage, then ImageToText (Spec) ---------- *)

\* One session: TextToImage runs at most once (encode or encode_file), and
\* when it is not running ImageToText runs at most once (decode or
\* decode_to_file), on the files TextToImage found or left.  Both programs
\* are single-threaded; a run keeps its arguments and locals after it ends.

\* the text files found on disk
FileTexts == {<<>>, <<chr(1), chr(MaxCodePoint)>>}

\* a raster found on disk that no encode of the model wrote
SomeRaster ==
    [size |-> <<1, 2>>, px |-> [xy \in {0} \X {0, 1} |-> IF xy[2] = 0 THEN 0 ELSE ChannelMax]]

InitialFs(s) ==
    [p \in {t_txt, I_PNG, j_png} |->
        IF p = t_txt THEN TextFile(s)
        ELSE IF p = I_PNG THEN PngFile(SomeRaster)
        ELSE TextFile(<<chr(1)>>)]

Init ==
    /\ \E s \in FileTexts : fs = InitialFs(s)
    /\ enc = EncIdle
    /\ dec = DecIdle
    /\ call = CallIdle

Next == NextEncoder \/ NextDecoder

Spec == Init /\ [][Next]_vars

(* ------------- the decoder on any raster (SpecDecode) ---------------- *)

\* ImageToText alone, on a single-channel image of any content.

RasterSizes == {wh \in (1..MaxCells) \X (1..MaxCells) : wh[1] * wh[2] <= MaxCells}

Rasters ==
    UNION {{[size |-> wh, px |-> f] :
              f \in [(0..(wh[1] - 1)) \X (0..(wh[2] - 1)) -> 0..MaxPixel]} :
           wh \in RasterSizes}

InitDecode ==
    /\ \E r \in Rasters :
          fs = [p \in {o_png, I_PNG, j_png, t_txt} |->
                  IF p \in {o_png, I_PNG} THEN PngFile(r) ELSE TextFile(<<chr(1)>>)]
    /\ enc = EncIdle
    /\ dec = DecIdle
    /\ call = CallIdle

SpecDecode == InitDecode /\ [][NextDecoder]_vars

(* ------------------------------ claims ------------------------------- *)

\* the cell at scan position i (0-based): outer loop over size[0], inner over size[1]
ScanCell(img, i) == img.px[<<i \div img.size[2], i % img.size[2]>>]

NumCells(img) == img.size[1] * img.size[2]

ScanSeq(img) == [i \in 1..NumCells(img) |-> ScanCell(img, i - 1)]

Min(a, b) == IF a <= b THEN a ELSE b

\* encode or encode_file has returned and decode has returned the text of its image
RoundTripDone ==
    /\ enc.pc = "returned"
    /\ dec.pc = "returned" /\ dec.op = "decode"
    /\ dec.image_path = enc.result_path

Calls(io) == {io[k].call : k \in 1..Len(io)}

(* C1 as stated: for every limit >= 2 and every text whose characters all
   have ord(c) mod limit # 0, decode(encode(text, limit)) = text. *)
C1_RoundTripAsStated ==
    (/\ RoundTripDone
     /\ enc.limit >= 2
     /\ \A i \in 1..Len(enc.text.chars) : ord(enc.text.chars[i]) % enc.limit # 0)
    => dec.decoded_text = enc.text.chars

(* C1 amended: for every limit >= 2 and every text whose characters all
   have 1 <= ord(c) <= min(limit - 1, 255), decode(encode(text, limit)) = text. *)
C1_RoundTrip ==
    (/\ RoundTripDone
     /\ enc.limit >= 2
     /\ \A i \in 1..Len(enc.text.chars) :
           /\ 1 <= ord(enc.text.chars[i])
           /\ ord(enc.text.chars[i]) <= Min(enc.limit - 1, ChannelMax))
    => dec.decoded_text = enc.text.chars

C1_Witness ==
    /\ RoundTripDone
    /\ enc.limit = DefaultLimit + 1
    /\ enc.text.chars = <<chr(2), chr(1)>>
    /\ dec.decoded_text = <<chr(2), chr(1)>>

(* C2: get_image_size(text_length) returns without an error a pair
   (width, height) with width >= height >= 1 and width * height > text_length;
   for text_length = 0 the pair is (2, 1). *)
C2_Geometry ==
    call.fn = "get_image_size" =>
        /\ call.ret.exc = "None"
        /\ call.ret.value[1] >= call.ret.value[2]
        /\ call.ret.value[2] >= 1
        /\ call.ret.value[1] * call.ret.value[2] > call.text_length
        /\ (call.text_length = 0 => call.ret.value = <<2, 1>>)

C2_Witness ==
    /\ call.fn = "get_image_size"
    /\ call.text_length = 0
    /\ call.ret = Ok(<<2, 1>>)

(* C3: for every character and every limit >= 2, convert_char_to_int is never
   0 and lies in 1..limit-1; it is 1 when ord(char) mod limit = 0 and
   ord(char) mod limit otherwise. *)
C3_ValueMapping ==
    (call.fn = "convert_char_to_int" /\ call.limit >= 2) =>
        /\ call.ret.exc = "None"
        /\ call.ret.value # 0
        /\ call.ret.value \in 1..(call.limit - 1)
        /\ (ord(call.char) % call.limit = 0 => call.ret.value = 1)
        /\ (ord(call.char) % call.limit # 0 => call.ret.value = ord(call.char) % call.limit)

C3_Witness ==
    /\ call.fn = "convert_char_to_int"
    /\ call.limit = DefaultLimit
    /\ ord(call.char) = DefaultLimit
    /\ call.ret = Ok(1)

(* C4: encode with a limit below 2 ends in a validation error raised before
   any pixel is written and before the image is saved; it never returns. *)
C4_InvalidLimitRejected ==
    (enc.pc \in {"returned", "raised"} /\ enc.limit < 2) =>
        /\ enc.pc = "raised"
        /\ enc.exc \in {"TypeError", "ValueError"}
        /\ enc.written = <<>>
        /\ "save" \notin Calls(enc.io)

(* C5: after encode returns with a limit in 2..256, the saved raster holds
   convert_char_to_int(text[i], limit) at scan position i for i < len(text) and
   0 at every later position; exactly len(text) pixels were written, in scan
   order, while the outer loop ran over every row; the last cell is 0. *)
C5_EncoderLayout ==
    (enc.pc = "returned" /\ enc.limit \in 2..DefaultLimit) =>
        LET f == fs[enc.result_path]
            n == Len(enc.text.chars)
        IN  /\ f.kind = "png"
            /\ f.img.size = get_image_size(n).value
            /\ \A i \in 0..(NumCells(f.img) - 1) :
                  ScanCell(f.img, i) =
                      IF i < n THEN convert_char_to_int(enc.text.chars[i + 1], enc.limit).value
                      ELSE 0
            /\ ScanCell(f.img, NumCells(f.img) - 1) = 0
            /\ enc.written
                  = [i \in 1..n |-> <<(i - 1) \div f.img.size[2], (i - 1) % f.img.size[2]>>]
            /\ enc.rows = f.img.size[1]

C5_Witness ==
    /\ enc.pc = "returned"
    /\ enc.limit = 2
    /\ enc.text.chars = <<chr(3), chr(2)>>
    /\ ScanSeq(fs[enc.result_path].img) = <<1, 1, 0, 0>>
    /\ enc.rows = 2

(* C6: decode returns exactly chr(v) for the non-zero cell values v of the
   raster in scan order; a zero cell, trailing or embedded, adds nothing, so
   the output is as long as the number of non-zero cells. *)
C6_DecoderSemantics ==
    (dec.pc \in {"df_write", "returned"}) =>
        LET img  == dec.fs0[dec.image_path].img
            kept == SelectSeq(ScanSeq(img), LAMBDA v : v # 0)
        IN  /\ dec.decoded_text = [k \in 1..Len(kept) |-> chr(kept[k])]
            /\ Len(dec.decoded_text) = Cardinality({xy \in DOMAIN img.px : img.px[xy] # 0})

C6_Witness ==
    /\ dec.pc = "returned"
    /\ dec.op = "decode"
    /\ dec.img.size = <<2, 2>>
    /\ ScanSeq(dec.img) = <<2, 0, 1, 0>>
    /\ dec.decoded_text = <<chr(2), chr(1)>>

(* C7: an encode that ends in an error has not saved the image and has
   left the file system as it found it; a text that is not a str raises
   TypeError first, before the size is computed, the path normalised, the
   raster allocated or a pixel written. *)
C7_FailedEncodeNoArtifact ==
    /\ enc.pc = "raised" =>
          /\ "save" \notin Calls(enc.io)
          /\ (dec.pc = "idle" => fs = enc.fs0)
    /\ (enc.pc \notin {"idle", "e_type"} /\ enc.text.pytype # "str") =>
          /\ enc.pc = "raised"
          /\ enc.exc = "TypeError"
          /\ enc.at = "e_type"
          /\ enc.size = <<0, 0>>
          /\ enc.result_path = empty_path
          /\ enc.img = NoImage
          /\ enc.written = <<>>
          /\ enc.io = <<>>

C7_Witness ==
    /\ enc.pc = "raised"
    /\ enc.op = "encode"
    /\ enc.text = NotStr
    /\ enc.exc = "TypeError"
    /\ fs = enc.fs0

(* C8: in decode, decode_to_file and encode_file a missing source raises the
   not-found error before the source is opened; in decode_to_file and
   encode_file the existence check comes first and the extension check second,
   both before any read of the source and any write, so the file system is
   unchanged on either error. *)
C8_SourceChecksFirst ==
    /\ (dec.pc \notin {"idle", "df_isfile", "d_isfile"} /\ ~isfile(dec.fs0, dec.image_path)) =>
          /\ dec.pc = "raised"
          /\ dec.exc = "FileExistsError"
          /\ dec.at = IF dec.op = "decode" THEN "d_isfile" ELSE "df_isfile"
          /\ dec.io = <<IoEvent("isfile", dec.image_path)>>
          /\ fs = dec.fs0
    /\ (/\ dec.op = "decode_to_file"
        /\ dec.pc \notin {"idle", "df_isfile", "df_ext"}
        /\ isfile(dec.fs0, dec.image_path)
        /\ lower(Suffix(dec.image_path, 4)) # dot_png) =>
          /\ dec.pc = "raised"
          /\ dec.exc = "TypeError"
          /\ dec.at = "df_ext"
          /\ dec.io = <<IoEvent("isfile", dec.image_path)>>
          /\ fs = dec.fs0
    /\ (/\ enc.op = "encode_file"
        /\ enc.pc \notin {"idle", "ef_isfile"}
        /\ ~isfile(enc.fs0, enc.file_path)) =>
          /\ enc.pc = "raised"
          /\ enc.exc = "FileExistsError"
          /\ enc.at = "ef_isfile"
          /\ enc.io = <<IoEvent("isfile", enc.file_path)>>
          /\ (dec.pc = "idle" => fs = enc.fs0)
    /\ (/\ enc.op = "encode_file"
        /\ enc.pc \notin {"idle", "ef_isfile", "ef_ext"}
        /\ isfile(enc.fs0, enc.file_path)
        /\ lower(Suffix(enc.file_path, 4)) # dot_txt) =>
          /\ enc.pc = "raised"
          /\ enc.exc = "TypeError"
          /\ enc.at = "ef_ext"
          /\ enc.io = <<IoEvent("isfile", enc.file_path)>>
          /\ (dec.pc = "idle" => fs = enc.fs0)

C8_Witness ==
    /\ dec.op = "decode_to_file"
    /\ dec.image_path = m_txt
    /\ dec.pc = "raised"
    /\ dec.exc = "FileExistsError"
    /\ enc.op = "encode_file"
    /\ enc.file_path = I_PNG
    /\ enc.pc = "raised"
    /\ enc.exc = "TypeError"

\* the raster encode builds for text t under limit l
RasterOf(t, l) ==
    EncodeLoop(Image_new(get_image_size(Len(t)).value), t, Len(t), l).img

(* C9: for a limit in 2..256, decode(encode(text, limit)) is as long as text
   and its i-th character is chr(convert_char_to_int(text[i], limit)); a text of
   the same length whose characters are congruent to those of text modulo limit
   gives the same raster and the same decoded text; the result is text exactly
   when every code point lies in 1..limit-1. *)
C9_LossyMapping ==
    (RoundTripDone /\ enc.limit \in 2..DefaultLimit) =>
        LET t == enc.text.chars
            d == dec.decoded_text
        IN  /\ Len(d) = Len(t)
            /\ \A i \in 1..Len(t) : d[i] = chr(convert_char_to_int(t[i], enc.limit).value)
            /\ \A u \in Texts :
                  (/\ Len(u.chars) = Len(t)
                   /\ \A i \in 1..Len(t) : ord(u.chars[i]) % enc.limit = ord(t[i]) % enc.limit)
                  => /\ RasterOf(u.chars, enc.limit) = fs[enc.result_path].img
                     /\ DecodeLoop(RasterOf(u.chars, enc.limit)) = d
            /\ (d = t) <=> (\A i \in 1..Len(t) : ord(t[i]) \in 1..(enc.limit - 1))

C9_Witness ==
    /\ RoundTripDone
    /\ enc.limit = 2
    /\ enc.text.chars = <<chr(1), chr(3)>>
    /\ dec.decoded_text = <<chr(1), chr(1)>>
    /\ RasterOf(<<chr(3), chr(1)>>, 2) = fs[enc.result_path].img

(* C10: with true_length = text_length + 2 for an even text_length and
   text_length + 1 for an odd one, get_image_size returns (width, height) with
   width * height = true_length, and no pair of positive integers with that
   product is closer together; when the number of divisors is even the trimming
   loop ends with exactly the two middle divisors. *)
C10_NearSquare ==
    call.fn = "get_image_size" =>
        LET n  == call.text_length
            tl == IF n % 2 = 0 THEN n + 2 ELSE n + 1
            w  == call.ret.value[1]
            h  == call.ret.value[2]
            D  == {d \in 1..tl : tl % d = 0}
        IN  /\ call.ret.exc = "None"
            /\ w * h = tl
            /\ \A a \in D : LET b == tl \div a
                            IN  (IF a >= b THEN a - b ELSE b - a) >= w - h
            /\ Cardinality(D) % 2 = 0 =>
                  /\ PopLoop(_factors(tl).value) = Ok(<<h, w>>)
                  /\ h < w

C10_Witness ==
    /\ call.fn = "get_image_size"
    /\ call.text_length = 11
    /\ _factors(12) = Ok(<<1, 2, 3, 4, 6, 12>>)
    /\ call.ret = Ok(<<4, 3>>)

====
